---------------------------- MODULE Spec2Model ----------------------------
(***************************************************************************)
(* A model of torrent-bot-v8.py: the magnet-link pipeline of main()        *)
(* (install, read, validate, name, download, archive, upload, report,      *)
(* clean up), with the filesystem under /content, the aria2c child process *)
(* and its output pipe, the HTTP response of the upload, and cleanup_files.*)
(*                                                                         *)
(* A string is a sequence of one-character strings.  A filesystem path is  *)
(* a sequence of components, each component a string in that sense.        *)
(* Python's None is the value None below.                                  *)
(***************************************************************************)
EXTENDS Integers, Sequences, FiniteSets, TLC

VARIABLES
    pc,                 \* position of the interpreter in main() and its callees
    magnet_link,        \* main: the stripped input line
    torrent_name,       \* main: result of get_torrent_info
    now,                \* the wall clock, time.time(), in whole seconds
    fs,                 \* the filesystem: existing path -> "file" | "dir"
    fs0,                \* the filesystem when the run (or the call) started
    trace,              \* the stages entered so far, in order
    launched,           \* the external programs started so far, in order
    child,              \* the aria2c child process
    pipe,               \* lines written by the child and not yet read
    output,             \* download_torrent: the line last returned by readline()
    last_progress_line, \* download_torrent: the status line last rendered
    lines_read,         \* the lines readline() has returned so far
    dl_result,          \* what download_torrent returned
    zip_path,           \* main: what create_zip returned
    zip_rc,             \* create_zip: exit code of the zip subprocess
    response,           \* upload_to_gofile: outcome of requests.post
    download_page,      \* main: what upload_to_gofile returned
    reported,           \* the link printed in the success summary
    file_paths,         \* cleanup_files: its argument list
    idx,                \* cleanup_files: index of the path being processed
    ret,                \* how main ends once cleanup_files returns
    log,                \* what cleanup_files printed
    raised,             \* deletions on which the operating system raised
    exc                 \* the exception main met, or "none"

nameVars == <<magnet_link, torrent_name, now>>
fsVars == <<fs, fs0>>
dlVars == <<child, pipe, output, last_progress_line, lines_read, dl_result>>
zipVars == <<zip_path, zip_rc>>
upVars == <<response, download_page, reported>>
clVars == <<file_paths, idx, ret, log, raised>>
vars == <<pc, nameVars, fsVars, trace, launched, dlVars, zipVars, upVars,
          clVars, exc>>

(***************************************************************************)
(* Bounds of the model.                                                    *)
(***************************************************************************)
MaxTokens == 4      \* tokens after "magnet:?" in a generated magnet link
PadLen == 99        \* length of the long tail appended to a generated link
MaxLines == 2       \* lines the download child writes
MaxArgs == 2        \* arguments of a stand-alone cleanup_files call

None == <<"None">>

Truthy(v) == v # None /\ v # <<>>

Min(a, b) == IF a < b THEN a ELSE b

(***************************************************************************)
(* Strings.                                                                *)
(***************************************************************************)
\* s.startswith(p)
StartsWith(s, p) == Len(s) >= Len(p) /\ SubSeq(s, 1, Len(p)) = p

\* p in s, as Python's substring test
Contains(s, p) ==
    \E i \in 1..(Len(s) - Len(p) + 1) : SubSeq(s, i, i + Len(p) - 1) = p

\* the characters str.strip() and the pattern \s take for whitespace
Whitespace == {" ", "\t", "\n", "\r", "\f"}

\* str.strip(): drop leading and trailing whitespace
RECURSIVE LStrip(_)
LStrip(s) ==
    IF s # <<>> /\ Head(s) \in Whitespace THEN LStrip(Tail(s)) ELSE s

RECURSIVE RStrip(_)
RStrip(s) ==
    IF s # <<>> /\ s[Len(s)] \in Whitespace
    THEN RStrip(SubSeq(s, 1, Len(s) - 1)) ELSE s

Strip(s) == RStrip(LStrip(s))

\* str(n) of a non-negative integer
DigitChars == <<"0","1","2","3","4","5","6","7","8","9">>

RECURSIVE IntToStr(_)
IntToStr(n) ==
    IF n < 10 THEN <<DigitChars[n + 1]>>
    ELSE Append(IntToStr(n \div 10), DigitChars[(n % 10) + 1])

(***************************************************************************)
(* urllib.parse.unquote_plus, on ASCII input.                              *)
(***************************************************************************)
HexDigits == <<"0","1","2","3","4","5","6","7","8","9",
               "A","B","C","D","E","F">>
HexLower == <<"0","1","2","3","4","5","6","7","8","9",
              "a","b","c","d","e","f">>

IsHex(c) == \E i \in 1..16 : HexDigits[i] = c \/ HexLower[i] = c

HexVal(c) == (CHOOSE i \in 1..16 : HexDigits[i] = c \/ HexLower[i] = c) - 1

\* the printable ASCII characters, codes 32 to 126 (the grave accent, code 96,
\* is written U+0060)
Ascii == <<" ","!","\"","#","$","%","&","'","(",")","*","+",",","-",".","/",
           "0","1","2","3","4","5","6","7","8","9",":",";","<","=",">","?",
           "@","A","B","C","D","E","F","G","H","I","J","K","L","M","N","O",
           "P","Q","R","S","T","U","V","W","X","Y","Z","[","\\","]","^","_",
           "U+0060","a","b","c","d","e","f","g","h","i","j","k","l","m","n","o",
           "p","q","r","s","t","u","v","w","x","y","z","{","|","}","~">>

\* the character a decoded byte stands for; a byte that is no printable or
\* whitespace ASCII character is kept as one opaque character
Chr(code) ==
    IF code \in 32..126 THEN Ascii[code - 31]
    ELSE IF code = 9 THEN "\t"
    ELSE IF code = 10 THEN "\n"
    ELSE IF code = 12 THEN "\f"
    ELSE IF code = 13 THEN "\r"
    ELSE "U+FFFD"

\* string.replace('+', ' ')
PlusToSpace(s) == [i \in 1..Len(s) |-> IF s[i] = "+" THEN " " ELSE s[i]]

\* unquote: "%XX" with two hex digits is the byte XX, any other "%" stays.
\* The two digits of an escape are never "%", so escapes do not overlap.
EscapeAt(s, i) ==
    s[i] = "%" /\ i + 2 <= Len(s) /\ IsHex(s[i+1]) /\ IsHex(s[i+2])

InEscape(s, i) ==
    \/ i > 1 /\ EscapeAt(s, i - 1)
    \/ i > 2 /\ EscapeAt(s, i - 2)

Unquote(s) ==
    LET at == [i \in 1..Len(s) |->
                 IF EscapeAt(s, i)
                 THEN <<Chr(16 * HexVal(s[i+1]) + HexVal(s[i+2]))>>
                 ELSE IF InEscape(s, i) THEN <<>> ELSE <<s[i]>>]
        kept == SelectSeq(at, LAMBDA x : x # <<>>)
    IN  [i \in 1..Len(kept) |-> kept[i][1]]

unquote_plus(s) == Unquote(PlusToSpace(s))

(***************************************************************************)
(* sanitize_filename.                                                      *)
(***************************************************************************)
MaxNameLen == 100

\* the character class [<>:"/\\|?*]
Illegal == {"<", ">", ":", "\"", "/", "\\", "|", "?", "*"}

\* re.sub(r'[<>:"/\\|?*]', '_', filename)
ReplaceIllegal(s) == [i \in 1..Len(s) |-> IF s[i] \in Illegal THEN "_" ELSE s[i]]

\* re.sub(r'\s+', '_', filename): every maximal run of whitespace becomes one
\* "_"; the characters of a run after its first leave nothing
CollapseWhitespace(s) ==
    LET at == [i \in 1..Len(s) |->
                 IF s[i] \notin Whitespace THEN <<s[i]>>
                 ELSE IF i > 1 /\ s[i-1] \in Whitespace THEN <<>>
                 ELSE <<"_">>]
        kept == SelectSeq(at, LAMBDA x : x # <<>>)
    IN  [i \in 1..Len(kept) |-> kept[i][1]]

\* filename[:100]
Truncate(s) == SubSeq(s, 1, Min(Len(s), MaxNameLen))

\* a variant that replaces each whitespace character on its own (the pattern
\* \s in place of \s+)
sanitize_each_space(filename) ==
    Truncate([i \in 1..Len(filename) |->
                IF filename[i] \in Whitespace THEN "_"
                ELSE ReplaceIllegal(filename)[i]])

sanitize_filename(filename) ==
    Truncate(CollapseWhitespace(ReplaceIllegal(filename)))

(***************************************************************************)
(* get_torrent_info.                                                       *)
(***************************************************************************)
DnKey == <<"d","n","=">>
FallbackPrefix == <<"t","o","r","r","e","n","t","_">>

\* re.search(r'dn=([^&]+)', s) tried at position i: "dn=" and one more
\* character that is not "&"
MatchesAt(s, i) ==
    /\ i + 3 <= Len(s)
    /\ SubSeq(s, i, i + 2) = DnKey
    /\ s[i + 3] # "&"

\* the leftmost position where the pattern matches, 0 if there is none
Search(s) ==
    LET hits == {i \in 1..Len(s) : MatchesAt(s, i)}
    IN  IF hits = {} THEN 0 ELSE CHOOSE i \in hits : \A j \in hits : i <= j

\* the end of the greedy group ([^&]+) that starts at position j
GroupEnd(s, j) ==
    LET stops == {k \in j..Len(s) : s[k] = "&"}
    IN  IF stops = {} THEN Len(s)
        ELSE (CHOOSE k \in stops : \A l \in stops : k <= l) - 1

\* name_match.group(1)
Group1(s) ==
    LET m == Search(s) IN SubSeq(s, m + 3, GroupEnd(s, m + 3))

\* f"torrent_{int(time.time())}"
FallbackName(t) == FallbackPrefix \o IntToStr(t)

\* a variant whose pattern is dn=([^&]*): it takes the first "dn=" whatever
\* follows it
get_torrent_info_star(link, t) ==
    IF Contains(link, DnKey)
    THEN LET m == CHOOSE i \in 1..Len(link) :
                     /\ i + 2 <= Len(link)
                     /\ SubSeq(link, i, i + 2) = DnKey
                     /\ \A j \in 1..(i - 1) : SubSeq(link, j, j + 2) # DnKey
         IN  sanitize_filename(unquote_plus(
                 SubSeq(link, m + 3, GroupEnd(link, m + 3))))
    ELSE FallbackName(t)

get_torrent_info(link, t) ==
    IF Contains(link, DnKey) /\ Search(link) # 0
    THEN sanitize_filename(unquote_plus(Group1(link)))
    ELSE FallbackName(t)

(***************************************************************************)
(* The filesystem.                                                         *)
(***************************************************************************)
Content == <<"c","o","n","t","e","n","t">>
Downloads == <<"d","o","w","n","l","o","a","d","s">>
DotZip == <<".","z","i","p">>

ContentDir == <<Content>>                        \* "/content"
DownloadsDir == <<Content, Downloads>>           \* "/content/downloads"
DlFile == DownloadsDir \o << <<"f">> >>          \* a file the download writes
DlSub == DownloadsDir \o << <<"s">> >>           \* a directory it writes
DlSubFile == DlSub \o << <<"g">> >>              \* a file in that directory
OtherFile == <<Content, <<"k">> >>               \* a file the program never names

\* f"/content/{zip_name}.zip"
ZipPath(zip_name) == <<Content, zip_name \o DotZip>>

Exists(f, p) == p \in DOMAIN f                   \* os.path.exists
IsFile(f, p) == Exists(f, p) /\ f[p] = "file"    \* os.path.isfile
IsDir(f, p) == Exists(f, p) /\ f[p] = "dir"      \* os.path.isdir

IsUnder(p, d) == Len(p) > Len(d) /\ SubSeq(p, 1, Len(d)) = d

\* os.listdir(d)
ListDir(f, d) == {p \in DOMAIN f : Len(p) = Len(d) + 1 /\ IsUnder(p, d)}

\* d and everything below it
Tree(f, d) == {p \in DOMAIN f : p = d \/ IsUnder(p, d)}

Without(f, S) == [p \in (DOMAIN f) \ S |-> f[p]]
With(f, p, kind) == [q \in (DOMAIN f) \cup {p} |-> IF q = p THEN kind ELSE f[q]]

\* what a failing shutil.rmtree(d) may already have deleted: entries below d,
\* a directory only together with everything in it
PartialRemovals(f, d) ==
    {S \in SUBSET (Tree(f, d) \ {d}) :
        \A p \in S : \A q \in DOMAIN f : IsUnder(q, p) => q \in S}

(***************************************************************************)
(* cleanup_files.                                                          *)
(***************************************************************************)
Logged(msg, p) == [msg |-> msg, path |-> p]
Raised(call, p) == [call |-> call, path |-> p]

\* one iteration of the for loop: the try block for file_paths[idx]
CleanupSkip ==
    /\ ~Exists(fs, file_paths[idx])
    /\ UNCHANGED <<fs, log, raised>>

CleanupRemoveFile ==
    /\ IsFile(fs, file_paths[idx])
    /\ fs' = Without(fs, {file_paths[idx]})
    /\ log' = Append(log, Logged("Deleted file", file_paths[idx]))
    /\ UNCHANGED raised

CleanupRemoveTree ==
    /\ IsDir(fs, file_paths[idx])
    /\ fs' = Without(fs, Tree(fs, file_paths[idx]))
    /\ log' = Append(log, Logged("Deleted directory", file_paths[idx]))
    /\ UNCHANGED raised

\* os.remove raises: the except clause prints and the loop goes on
CleanupRemoveFileFails ==
    /\ IsFile(fs, file_paths[idx])
    /\ log' = Append(log, Logged("Could not delete", file_paths[idx]))
    /\ raised' = raised \cup {Raised("remove", file_paths[idx])}
    /\ UNCHANGED fs

\* shutil.rmtree raises part of the way: the except clause prints and the loop
\* goes on
CleanupRemoveTreeFails ==
    /\ IsDir(fs, file_paths[idx])
    /\ \E S \in PartialRemovals(fs, file_paths[idx]) : fs' = Without(fs, S)
    /\ log' = Append(log, Logged("Could not delete", file_paths[idx]))
    /\ raised' = raised \cup {Raised("rmtree", file_paths[idx])}

\* a variant in which one try block encloses the whole loop: the first
\* deletion that raises ends it
CleanupStepStopsOnFailure ==
    /\ pc = "cleanup"
    /\ idx <= Len(file_paths)
    /\ \/ /\ CleanupSkip \/ CleanupRemoveFile \/ CleanupRemoveTree
          /\ idx' = idx + 1
       \/ /\ CleanupRemoveFileFails \/ CleanupRemoveTreeFails
          /\ idx' = Len(file_paths) + 1
    /\ UNCHANGED <<pc, nameVars, fs0, trace, launched, dlVars, zipVars, upVars,
                   file_paths, ret, exc>>

\* the for statement: the next path, if there is one
LoopContinues(paths, i) == i <= Len(paths)

CleanupStep ==
    /\ pc = "cleanup"
    /\ LoopContinues(file_paths, idx)
    /\ \/ CleanupSkip
       \/ CleanupRemoveFile
       \/ CleanupRemoveTree
       \/ CleanupRemoveFileFails
       \/ CleanupRemoveTreeFails
    /\ idx' = idx + 1
    /\ UNCHANGED <<pc, nameVars, fs0, trace, launched, dlVars, zipVars, upVars,
                   file_paths, ret, exc>>

\* os.path.exists(downloads_dir) and not os.listdir(downloads_dir)
RootIsEmpty(f) == IsDir(f, DownloadsDir) /\ ListDir(f, DownloadsDir) = {}

\* the second try block: the downloads root goes if it exists and is empty;
\* whatever is raised there is swallowed
CleanupRoot ==
    /\ pc = "cleanup"
    /\ ~LoopContinues(file_paths, idx)
    /\ \/ /\ RootIsEmpty(fs)
          /\ fs' = Without(fs, {DownloadsDir})
          /\ log' = Append(log, Logged("Removed empty downloads directory",
                                       DownloadsDir))
          /\ UNCHANGED raised
       \/ /\ RootIsEmpty(fs)
          /\ raised' = raised \cup {Raised("rmdir", DownloadsDir)}
          /\ UNCHANGED <<fs, log>>
       \/ /\ ~RootIsEmpty(fs)
          /\ UNCHANGED <<fs, log, raised>>
    /\ pc' = "cleanup_return"
    /\ UNCHANGED <<nameVars, fs0, trace, launched, dlVars, zipVars, upVars,
                   file_paths, idx, ret, exc>>

(***************************************************************************)
(* download_torrent: the aria2c child, its output pipe and the read loop.  *)
(* A value that Python leaves unset (poll() before the exit, a result not  *)
(* yet returned) is the empty sequence, a set value v is <<v>>.            *)
(***************************************************************************)
NoChild == [state |-> "none", closed |-> FALSE, rc |-> <<>>, lines |-> <<>>]

\* exit statuses of the child: success, an error, killed by a signal
ExitCodes == {0, 1, -9}

\* lines the child may write: a progress line, a line the filter drops
\* although it carries a percentage, an empty line
ProgressLine == <<"[","#","1"," ","5","0","%"," ","D","L",":","1","M","i","B","]","\n">>
NoisyLine == <<"G","I","D",":","1"," ","5","0","%","\n">>
EmptyLine == <<"\n">>
OutputLines == {ProgressLine, NoisyLine, EmptyLine}

\* str.lower() of one character
LowerChar(c) ==
    IF \E i \in 34..59 : Ascii[i] = c
    THEN Ascii[(CHOOSE i \in 34..59 : Ascii[i] = c) + 32]
    ELSE c

Lower(s) == [i \in 1..Len(s) |-> LowerChar(s[i])]

NoisePatterns ==
    { <<"-","-","-">>,
      <<"d","o","w","n","l","o","a","d"," ","r","e","s","u","l","t">>,
      <<"g","i","d",":">>,
      <<"s","t","a","t","u","s",":","a","c","t","i","v","e">>,
      <<"u","r","i",":">>,
      <<"l","o","c","a","l",":">>,
      <<"r","e","m","o","t","e",":">>,
      <<"[","m","e","t","a","d","a","t","a","]">> }

ProgressIndicators ==
    { <<"D","L",":">>, <<"C","N",":">>, <<"%">>, <<"E","T","A",":">>,
      <<"S","I","Z","E",":">>, <<"S","E","E","D">> }

\* the two nested if statements that decide whether a line is rendered
IsProgress(clean_output) ==
    /\ clean_output # <<>>
    /\ ~ \E x \in NoisePatterns : Contains(Lower(clean_output), x)
    /\ \E indicator \in ProgressIndicators : Contains(clean_output, indicator)

\* the verdict of the filter on each line the child may write
Rendered == [l \in OutputLines |-> IsProgress(Strip(l))]

\* os.makedirs(p, exist_ok=True), when it does not raise
MakeDirs(f, p) ==
    [q \in (DOMAIN f) \cup {SubSeq(p, 1, k) : k \in 1..Len(p)} |->
        IF q \in DOMAIN f THEN f[q] ELSE "dir"]

\* os.makedirs, then subprocess.Popen
DownloadStart ==
    /\ pc = "download"
    /\ trace' = Append(trace, "Downloading")
    /\ \/ \* makedirs raises, before the try block: the caller gets the exception
          /\ ~IsDir(fs, DownloadsDir)
          /\ exc' = "Exception"
          /\ pc' = "raise"
          /\ UNCHANGED <<fs, launched, dlVars>>
       \/ \* Popen raises: the except clause returns False
          /\ ~IsFile(fs, DownloadsDir)
          /\ fs' = MakeDirs(fs, DownloadsDir)
          /\ dl_result' = <<FALSE>>
          /\ pc' = "download_return"
          /\ UNCHANGED <<exc, launched, child, pipe, output,
                         last_progress_line, lines_read>>
       \/ \* the child runs
          /\ ~IsFile(fs, DownloadsDir)
          /\ fs' = MakeDirs(fs, DownloadsDir)
          /\ child' = [state |-> "running", closed |-> FALSE, rc |-> <<>>,
                       lines |-> <<>>]
          /\ launched' = Append(launched, "aria2c")
          /\ pc' = "readline"
          /\ UNCHANGED <<exc, pipe, output, last_progress_line, lines_read,
                         dl_result>>
    /\ UNCHANGED <<nameVars, fs0, zipVars, upVars, clVars>>

\* the child writes a line to its output
ChildWriteLine ==
    /\ child.state = "running"
    /\ ~child.closed
    /\ Len(child.lines) < MaxLines
    /\ \E l \in OutputLines :
          /\ child' = [child EXCEPT !.lines = Append(@, l)]
          /\ pipe' = Append(pipe, l)
    /\ UNCHANGED <<pc, nameVars, fsVars, trace, launched, output,
                   last_progress_line, lines_read, dl_result, zipVars, upVars,
                   clVars, exc>>

\* the child stores downloaded data: a file, or a directory with a file
ChildWriteFile ==
    /\ child.state = "running"
    /\ IsDir(fs, DownloadsDir)
    /\ ListDir(fs, DownloadsDir) = {}
    /\ \/ fs' = With(fs, DlFile, "file")
       \/ fs' = With(With(fs, DlSub, "dir"), DlSubFile, "file")
    /\ UNCHANGED <<pc, nameVars, fs0, trace, launched, dlVars, zipVars, upVars,
                   clVars, exc>>

\* the child closes its output while it still runs
ChildCloseStdout ==
    /\ child.state = "running"
    /\ ~child.closed
    /\ child' = [child EXCEPT !.closed = TRUE]
    /\ UNCHANGED <<pc, nameVars, fsVars, trace, launched, pipe, output,
                   last_progress_line, lines_read, dl_result, zipVars, upVars,
                   clVars, exc>>

\* the child exits; the operating system closes its output
ChildExit ==
    /\ child.state = "running"
    /\ \E code \in ExitCodes :
          child' = [child EXCEPT !.state = "exited", !.closed = TRUE,
                                 !.rc = <<code>>]
    /\ UNCHANGED <<pc, nameVars, fsVars, trace, launched, pipe, output,
                   last_progress_line, lines_read, dl_result, zipVars, upVars,
                   clVars, exc>>

\* output = process.stdout.readline(): blocks until a line is there or the
\* stream is at end-of-file, where it returns ''
ReadLine ==
    /\ pc = "readline"
    /\ \/ /\ pipe # <<>>
          /\ output' = Head(pipe)
          /\ pipe' = Tail(pipe)
          /\ lines_read' = Append(lines_read, Head(pipe))
       \/ /\ pipe = <<>>
          /\ child.closed
          /\ output' = <<>>
          /\ UNCHANGED <<pipe, lines_read>>
    /\ pc' = "poll"
    /\ UNCHANGED <<nameVars, fsVars, trace, launched, child,
                   last_progress_line, dl_result, zipVars, upVars, clVars, exc>>

\* a variant that leaves the loop at end-of-file without asking poll()
LoopBreakAtEof(out, c) == out = <<>>

\* if output == '' and process.poll() is not None: break
LoopBreak(out, c) == out = <<>> /\ c.state = "exited"

\* the rest of one iteration: leave the loop, or filter and render the line
PollAndRender ==
    /\ pc = "poll"
    /\ IF LoopBreak(output, child)
       THEN /\ pc' = "loop_exit"
            /\ UNCHANGED last_progress_line
       ELSE /\ pc' = "readline"
            /\ last_progress_line' =
                  IF output # <<>> /\ Rendered[output]
                  THEN Strip(output) ELSE last_progress_line
    /\ UNCHANGED <<nameVars, fsVars, trace, launched, child, pipe, output,
                   lines_read, dl_result, zipVars, upVars, clVars, exc>>

\* a variant that tests return_code is not None
DownloadSucceededNotNone(return_code) == return_code # <<>>

\* return_code == 0, where return_code is what poll() gave
DownloadSucceeded(return_code) == return_code # <<>> /\ return_code[1] = 0

\* return_code = process.poll(), then True or False
DownloadFinish ==
    /\ pc = "loop_exit"
    /\ dl_result' = <<DownloadSucceeded(child.rc)>>
    /\ pc' = "download_return"
    /\ UNCHANGED <<nameVars, fsVars, trace, launched, child, pipe, output,
                   last_progress_line, lines_read, zipVars, upVars, clVars, exc>>

(***************************************************************************)
(* create_zip and upload_to_gofile.                                        *)
(***************************************************************************)
\* zip -r -m run in source_dir with exit code 0: the archive exists and the
\* entries of source_dir have been moved into it
ZipMoved(f, source_dir, archive) ==
    With(Without(f, Tree(f, source_dir) \ {source_dir}), archive, "file")

\* what requests.post may give: an exception, or a response with a status
\* code and a body that is JSON or not, with or without the fields read
GoodUrl == <<"h","t","t","p","s",":","/","/","g","o","f","i","l","e",".","i","o","/","d","/","x">>

Responses ==
    [raises : {TRUE}, status_code : {0}, is_json : {FALSE},
     status : {"absent"}, downloadPage : {None}]
    \cup
    [raises : {FALSE}, status_code : {200, 404, 500}, is_json : {FALSE},
     status : {"absent"}, downloadPage : {None}]
    \cup
    [raises : {FALSE}, status_code : {200, 500}, is_json : {TRUE},
     status : {"ok", "error", "absent"}, downloadPage : {None, GoodUrl}]

\* a variant that does not look at the HTTP status code
upload_ignoring_status_code(r) ==
    IF r.raises \/ ~r.is_json THEN None
    ELSE IF r.status = "ok" THEN r.downloadPage ELSE None

\* the value upload_to_gofile returns for a response; None stands for a
\* missing data.downloadPage field in r.downloadPage, and for Python's None
\* in the result
upload_to_gofile(r) ==
    IF r.raises THEN None                          \* except Exception
    ELSE IF r.status_code = 200
         THEN IF ~r.is_json THEN None              \* response.json() raises
              ELSE IF r.status = "ok"
                   THEN r.downloadPage             \* a missing field raises
                   ELSE None
         ELSE None

(***************************************************************************)
(* main.                                                                   *)
(***************************************************************************)
MagnetPrefix == <<"m","a","g","n","e","t",":">>

\* a variant that tests "magnet" in magnet_link
ValidMagnetAnywhere(link) == Contains(link, <<"m","a","g","n","e","t">>)

\* magnet_link.startswith("magnet:")
ValidMagnet(link) == StartsWith(link, MagnetPrefix)

\* os.path.exists(download_dir) and os.listdir(download_dir) is not empty
HasContent(f) == Exists(f, DownloadsDir) /\ ListDir(f, DownloadsDir) # {}

\* the lines typed at the prompt
RawInputs ==
    { <<"n","o","t","-","a","-","m","a","g","n","e","t">>,
      <<"m","a","g","n","e","t",":","?","x","t","=","u","r","n",":","b","t",
        "i","h",":","A","B","C","&","d","n","=","M","y","+","C","o","o","l",
        "+","F","i","l","e">>,
      <<" ","m","a","g","n","e","t",":","?","x","t","=","u","r","n",":","b",
        "t","i","h",":","A","B","C"," ">> }

\* values of int(time.time())
TimeValues == {7, 1700000000}

\* the disk at the start: /content with a file in it, no downloads directory
FreshDisk == [p \in {ContentDir, OtherFile} |->
                 IF p = ContentDir THEN "dir" ELSE "file"]

\* a return statement of main outside the final cleanup, or an exception
\* nothing catches
Leave == pc' = "exit" /\ trace' = Append(trace, "Aborted")

\* install_dependencies(): two apt-get runs with check=True
InstallDependencies ==
    /\ pc = "start"
    /\ \/ \* apt-get cannot be started
          /\ exc' = "FileNotFoundError" /\ Leave
          /\ UNCHANGED launched
       \/ \* apt-get update exits non-zero
          /\ launched' = launched \o <<"apt-get update">>
          /\ exc' = "CalledProcessError" /\ Leave
       \/ \* apt-get install exits non-zero
          /\ launched' = launched \o <<"apt-get update", "apt-get install">>
          /\ exc' = "CalledProcessError" /\ Leave
       \/ /\ launched' = launched \o <<"apt-get update", "apt-get install">>
          /\ pc' = "input"
          /\ UNCHANGED <<exc, trace>>
    /\ UNCHANGED <<nameVars, fsVars, dlVars, zipVars, upVars, clVars>>

\* magnet_link = input(...).strip()
ReadInput ==
    /\ pc = "input"
    /\ \E raw \in RawInputs : magnet_link' = Strip(raw)
    /\ pc' = "validate"
    /\ UNCHANGED <<torrent_name, now, fsVars, trace, launched, dlVars, zipVars,
                   upVars, clVars, exc>>

\* the prefix test, and for a magnet link the name
Validate ==
    /\ pc = "validate"
    /\ IF ValidMagnet(magnet_link)
       THEN /\ torrent_name' = get_torrent_info(magnet_link, now)
            /\ trace' = Append(trace, "Validating")
            /\ pc' = "download"
       ELSE /\ trace' = trace \o <<"Validating", "Aborted">>
            /\ pc' = "exit"
            /\ UNCHANGED torrent_name
    /\ UNCHANGED <<magnet_link, now, fsVars, launched, dlVars, zipVars, upVars,
                   clVars, exc>>

\* if not download_torrent(...): return, and the test for downloaded content
AfterDownload ==
    /\ pc = "download_return"
    /\ IF dl_result[1] /\ HasContent(fs)
       THEN pc' = "zip" /\ UNCHANGED trace
       ELSE Leave
    /\ UNCHANGED <<nameVars, fsVars, launched, dlVars, zipVars, upVars, clVars,
                   exc>>

\* zip_path = create_zip(download_dir, torrent_name); if not zip_path: return
CreateZip ==
    /\ pc = "zip"
    /\ \/ \* subprocess.run raises: the except clause returns None
          /\ zip_path' = None
          /\ trace' = trace \o <<"Archiving", "Aborted">>
          /\ pc' = "exit"
          /\ UNCHANGED <<fs, launched, zip_rc>>
       \/ \* zip exits non-zero
          /\ \E code \in {12, 15} : zip_rc' = <<code>>
          /\ launched' = Append(launched, "zip")
          /\ zip_path' = None
          /\ trace' = trace \o <<"Archiving", "Aborted">>
          /\ pc' = "exit"
          /\ UNCHANGED fs
       \/ \* zip exits with 0, then os.rmdir(source_dir), which may raise
          /\ zip_rc' = <<0>>
          /\ launched' = Append(launched, "zip")
          /\ zip_path' = ZipPath(torrent_name)
          /\ LET moved == ZipMoved(fs, DownloadsDir, ZipPath(torrent_name))
             IN  \/ fs' = Without(moved, {DownloadsDir})
                 \/ fs' = moved
          /\ trace' = Append(trace, "Archiving")
          /\ pc' = "upload"
    /\ UNCHANGED <<nameVars, fs0, dlVars, upVars, clVars, exc>>

\* download_page = upload_to_gofile(zip_path)
Upload ==
    /\ pc = "upload"
    /\ \E r \in Responses :
          /\ response' = r
          /\ download_page' = upload_to_gofile(r)
    /\ trace' = Append(trace, "Uploading")
    /\ pc' = "report"
    /\ UNCHANGED <<nameVars, fsVars, launched, dlVars, zipVars, reported,
                   clVars, exc>>

\* a variant that returns after the summary, without the call of cleanup_files
ReportThenReturn ==
    /\ pc = "report"
    /\ IF Truthy(download_page)
       THEN /\ reported' = download_page
            /\ trace' = trace \o <<"Reporting", "Done">>
       ELSE /\ trace' = Append(trace, "Done")
            /\ UNCHANGED reported
    /\ pc' = "exit"
    /\ UNCHANGED <<nameVars, fsVars, launched, dlVars, zipVars, response,
                   download_page, clVars, exc>>

\* the success summary if there is a link, then cleanup_files(zip_path,
\* download_dir)
Report ==
    /\ pc = "report"
    /\ IF Truthy(download_page)
       THEN /\ reported' = download_page
            /\ trace' = trace \o <<"Reporting", "CleaningUp">>
       ELSE /\ trace' = Append(trace, "CleaningUp")
            /\ UNCHANGED reported
    /\ file_paths' = <<zip_path, DownloadsDir>>
    /\ idx' = 1
    /\ ret' = "Done"
    /\ pc' = "cleanup"
    /\ UNCHANGED <<nameVars, fsVars, launched, dlVars, zipVars, response,
                   download_page, log, raised, exc>>

\* the places of the try block, from download_torrent to the final cleanup
InTry ==
    \/ pc \in {"download", "readline", "poll", "loop_exit", "download_return",
               "zip", "upload", "report"}
    \/ pc \in {"cleanup", "cleanup_return"} /\ ret = "Done"

\* Ctrl-C while main is in the try block; the signal reaches the child too
Interrupt ==
    /\ InTry
    /\ exc = "none"
    /\ exc' = "KeyboardInterrupt"
    /\ pc' = "raise"
    /\ child' = IF child.state = "running"
                THEN [child EXCEPT !.state = "exited", !.closed = TRUE,
                                   !.rc = <<-2>>]
                ELSE child
    /\ UNCHANGED <<nameVars, fsVars, trace, launched, pipe, output,
                   last_progress_line, lines_read, dl_result, zipVars, upVars,
                   clVars>>

\* except KeyboardInterrupt / except Exception: cleanup_files(download_dir)
Handler ==
    /\ pc = "raise"
    /\ file_paths' = <<DownloadsDir>>
    /\ idx' = 1
    /\ ret' = "Aborted"
    /\ trace' = Append(trace, "CleaningUp")
    /\ pc' = "cleanup"
    /\ UNCHANGED <<nameVars, fsVars, launched, dlVars, zipVars, upVars, log,
                   raised, exc>>

\* cleanup_files has returned: main ends
Finish ==
    /\ pc = "cleanup_return"
    /\ trace' = Append(trace, ret)
    /\ pc' = "exit"
    /\ UNCHANGED <<nameVars, fsVars, launched, dlVars, zipVars, upVars, clVars,
                   exc>>

(***************************************************************************)
(* Specifications.                                                         *)
(***************************************************************************)
IdleDownload ==
    /\ child = NoChild
    /\ pipe = <<>>
    /\ output = <<>>
    /\ last_progress_line = <<>>
    /\ lines_read = <<>>
    /\ dl_result = <<>>

IdleLater ==
    /\ zip_path = None
    /\ zip_rc = <<>>
    /\ response = None
    /\ download_page = None
    /\ reported = None

IdleCleanup ==
    /\ file_paths = <<>>
    /\ idx = 1
    /\ ret = "none"
    /\ log = <<>>
    /\ raised = {}

\* a run of main()
Init ==
    /\ pc = "start"
    /\ magnet_link = <<>>
    /\ torrent_name = None
    /\ now \in TimeValues
    /\ fs = FreshDisk
    /\ fs0 = fs
    /\ trace = <<>>
    /\ launched = <<>>
    /\ IdleDownload
    /\ IdleLater
    /\ IdleCleanup
    /\ exc = "none"

Next ==
    \/ InstallDependencies
    \/ ReadInput
    \/ Validate
    \/ DownloadStart
    \/ ChildWriteLine
    \/ ChildWriteFile
    \/ ChildCloseStdout
    \/ ChildExit
    \/ ReadLine
    \/ PollAndRender
    \/ DownloadFinish
    \/ AfterDownload
    \/ CreateZip
    \/ Upload
    \/ Report
    \/ Interrupt
    \/ Handler
    \/ CleanupStep
    \/ CleanupRoot
    \/ Finish

Spec == Init /\ [][Next]_vars

(***************************************************************************)
(* get_torrent_info on generated links: "magnet:?", then up to MaxTokens   *)
(* tokens, then nothing or a long tail.                                    *)
(***************************************************************************)
MagnetQuery == <<"m","a","g","n","e","t",":","?">>

Tokens ==
    { <<"d","n","=">>, <<"&">>, <<"a">>, <<"+">>, <<"%","2","F">>,
      <<"%","0","9">>, <<":">> }

RECURSIVE TokenStrings(_)
TokenStrings(n) ==
    IF n = 0 THEN {<<>>}
    ELSE LET shorter == TokenStrings(n - 1)
         IN  shorter \cup {s \o t : s \in shorter, t \in Tokens}

Rep(c, n) == [i \in 1..n |-> c]

NameInputs ==
    {MagnetQuery \o s \o Rep("b", k) : s \in TokenStrings(MaxTokens),
                                        k \in {0, PadLen}}
    \cup {Strip(raw) : raw \in RawInputs}

InitName ==
    /\ pc = "name"
    /\ magnet_link \in NameInputs
    /\ torrent_name = None
    /\ now \in TimeValues
    /\ fs = FreshDisk
    /\ fs0 = fs
    /\ trace = <<>>
    /\ launched = <<>>
    /\ IdleDownload
    /\ IdleLater
    /\ IdleCleanup
    /\ exc = "none"

\* torrent_name = get_torrent_info(magnet_link)
ExtractName ==
    /\ pc = "name"
    /\ torrent_name' = get_torrent_info(magnet_link, now)
    /\ pc' = "named"
    /\ UNCHANGED <<magnet_link, now, fsVars, trace, launched, dlVars, zipVars,
                   upVars, clVars, exc>>

SpecName == InitName /\ [][ExtractName]_vars

(***************************************************************************)
(* download_torrent on its own, from the call to the return.               *)
(***************************************************************************)
InitDownload ==
    /\ pc = "download"
    /\ magnet_link \in {Strip(raw) : raw \in {r \in RawInputs : ValidMagnet(Strip(r))}}
    /\ now \in TimeValues
    /\ torrent_name = get_torrent_info(magnet_link, now)
    /\ fs = FreshDisk
    /\ fs0 = fs
    /\ trace = <<"Validating">>
    /\ launched = <<"apt-get update", "apt-get install">>
    /\ IdleDownload
    /\ IdleLater
    /\ IdleCleanup
    /\ exc = "none"

NextDownload ==
    \/ DownloadStart
    \/ ChildWriteLine
    \/ ChildWriteFile
    \/ ChildCloseStdout
    \/ ChildExit
    \/ ReadLine
    \/ PollAndRender
    \/ DownloadFinish

\* the parent is a running process: a readline() that can return does, and the
\* statements after it are executed
SpecDownload ==
    /\ InitDownload
    /\ [][NextDownload]_vars
    /\ WF_vars(ReadLine)
    /\ WF_vars(PollAndRender)
    /\ WF_vars(DownloadFinish)

(***************************************************************************)
(* cleanup_files on its own: any argument list of up to MaxArgs paths, on  *)
(* any disk made of the paths below.                                       *)
(***************************************************************************)
SomeZip == ZipPath(<<"a">>)

ArgPaths == {SomeZip, DownloadsDir, DlSub, DlFile, OtherFile}

RECURSIVE ArgLists(_)
ArgLists(n) ==
    IF n = 0 THEN {<<>>}
    ELSE LET shorter == ArgLists(n - 1)
         IN  shorter \cup {Append(a, p) : a \in shorter, p \in ArgPaths}

Kind(p) ==
    IF p \in {ContentDir, DownloadsDir, DlSub} THEN "dir" ELSE "file"

\* the disks: /content and the unnamed file, and any of the other paths whose
\* parent directory is there too; the downloads root may also be a file
CleanupFilesystems ==
    LET optional == {SomeZip, DownloadsDir, DlFile, DlSub, DlSubFile}
        closed(S) == /\ DlFile \in S => DownloadsDir \in S
                     /\ DlSub \in S => DownloadsDir \in S
                     /\ DlSubFile \in S => DlSub \in S
        dirs == {[p \in {ContentDir, OtherFile} \cup S |-> Kind(p)] :
                    S \in {T \in SUBSET optional : closed(T)}}
    IN  dirs \cup {With(FreshDisk, DownloadsDir, "file")}

InitCleanup ==
    /\ pc = "cleanup"
    /\ magnet_link = <<>>
    /\ torrent_name = None
    /\ now \in {7}
    /\ fs \in CleanupFilesystems
    /\ fs0 = fs
    /\ trace = <<>>
    /\ launched = <<>>
    /\ IdleDownload
    /\ IdleLater
    /\ file_paths \in ArgLists(MaxArgs)
    /\ idx = 1
    /\ ret = "none"
    /\ log = <<>>
    /\ raised = {}
    /\ exc = "none"

NextCleanup == CleanupStep \/ CleanupRoot

SpecCleanup == InitCleanup /\ [][NextCleanup]_vars

(***************************************************************************)
(* Properties of a run of main(), checked under Spec.                      *)
(***************************************************************************)
Range(q) == {q[i] : i \in DOMAIN q}

Entered(stage) == stage \in Range(trace)

\* the input begins with the seven characters "magnet:"
BeginsWithMagnet ==
    /\ Len(magnet_link) >= 7
    /\ SubSeq(magnet_link, 1, 7) = <<"m","a","g","n","e","t",":">>

\* the archive of this run, /content/<label>.zip
Archive == <<Content, torrent_name \o <<".","z","i","p">> >>

\* the download directory holds at least one entry
Populated ==
    /\ DownloadsDir \in DOMAIN fs
    /\ \E p \in DOMAIN fs : Len(p) > 2 /\ SubSeq(p, 1, 2) = DownloadsDir

\* C1: whichever way main() ends once the input has been read (invalid magnet
\* link, download failure, empty download directory, archive failure, upload
\* failure, interruption, unexpected exception, success), cleanup_files has
\* been invoked before the process exits: no run reaches its end without a
\* Cleanup step.
C1_CleanupBeforeEveryExit ==
    (pc = "exit" /\ Entered("Validating")) => Entered("CleaningUp")

\* C2: a stage is invoked only if every earlier stage succeeded: the Download
\* Runner only for an input that starts with "magnet:", the Archiver only
\* after the download child has exited with code 0 and left a download
\* directory that exists and is not empty, the Uploader only after the
\* archiving utility has exited with code 0.
C2_StagesOnlyAfterSuccess ==
    /\ Entered("Downloading") => BeginsWithMagnet
    /\ pc = "zip" => child.state = "exited" /\ child.rc = <<0>> /\ Populated
    /\ Entered("Archiving") => child.state = "exited" /\ child.rc = <<0>>
    /\ pc = "upload" => zip_rc = <<0>>
    /\ Entered("Uploading") => zip_rc = <<0>>

\* C2, its case: the child exited with code 1 and main ended, archiver and
\* uploader never invoked.
C2_Witness ==
    /\ pc = "exit"
    /\ child.rc = <<1>>
    /\ ~Entered("Archiving")
    /\ ~Entered("Uploading")

\* the run got as far as the Download Runner and did not end with a link
FailedRun == Entered("Downloading") /\ ~Entered("Reporting")

\* C3: a run that ends in failure or interruption leaves, at exit, neither a
\* populated download directory nor an archive file, provided no deletion
\* that Cleanup attempted failed; in particular after the download child
\* exited with code 1 the download directory is gone; and the archive file
\* exists only between the Archiver's success and Cleanup.
C3_NothingLeftBehind ==
    /\ (pc = "exit" /\ FailedRun /\ raised = {}) =>
          /\ ~Populated
          /\ torrent_name # None => Archive \notin DOMAIN fs
    /\ (pc = "exit" /\ child.rc = <<1>> /\ raised = {}) =>
          DownloadsDir \notin DOMAIN fs
    /\ (torrent_name # None /\ Archive \in DOMAIN fs) =>
          zip_rc = <<0>> /\ pc # "exit"

\* C4 as stated: for an input that is not a magnet link, from start to exit
\* no external subprocess is launched and no directory is created.
C4_NoSubprocessAtAll ==
    (Entered("Validating") /\ ~BeginsWithMagnet) =>
        launched = <<>> /\ DOMAIN fs = DOMAIN fs0

\* C4, amended: for an input that is not a magnet link the run is rejected
\* right after the input is read: the only external programs launched are the
\* two apt-get runs of install_dependencies, which precede the prompt; no
\* download, archive or upload is started, nothing is created or deleted on
\* disk, and main ends without any later stage.
C4_OnlyInstallerRuns ==
    (Entered("Validating") /\ ~BeginsWithMagnet) =>
        /\ launched = <<"apt-get update", "apt-get install">>
        /\ fs = fs0
        /\ trace = <<"Validating", "Aborted">>
        /\ pc = "exit"

\* C4, its case: "not-a-magnet" was typed and main has ended.
C4_Witness ==
    /\ pc = "exit"
    /\ magnet_link = <<"n","o","t","-","a","-","m","a","g","n","e","t">>
    /\ Entered("Validating")

\* the upload was answered with HTTP 200 and a JSON body whose status is "ok"
UploadAccepted ==
    /\ ~response.raises
    /\ response.status_code = 200
    /\ response.is_json
    /\ response.status = "ok"

\* C5: the Uploader returns a URL only for HTTP status 200 with JSON status
\* "ok"; for any other HTTP status, a body that is not JSON or whose status
\* is not "ok", a missing URL field or a transport error it returns None; and
\* then the run, unless interrupted, goes on to cleanup_files(zip_path,
\* download_dir), reports no link, and ends with the archive and the download
\* directory gone, each unless its deletion raised.
C5_UploadFailureStillCleans ==
    /\ Entered("Uploading") =>
          /\ download_page # None => UploadAccepted
          /\ (~UploadAccepted \/ response.downloadPage = None) =>
                download_page = None
          /\ download_page \in {None, response.downloadPage}
    /\ (pc = "exit" /\ Entered("Uploading") /\ download_page = None
        /\ exc = "none") =>
          /\ reported = None
          /\ ~Entered("Reporting")
          /\ trace[Len(trace) - 1] = "CleaningUp"
          /\ file_paths = <<Archive, DownloadsDir>>
          /\ (\A r \in raised : r.path # Archive) => Archive \notin DOMAIN fs
          /\ (\A r \in raised : r.path # DownloadsDir) =>
                DownloadsDir \notin DOMAIN fs

\* C5, its case: the upload was answered with HTTP 500, no link was obtained,
\* and the run ended with the archive deleted.
C5_Witness ==
    /\ pc = "exit"
    /\ Entered("Uploading")
    /\ ~response.raises
    /\ response.status_code = 500
    /\ download_page = None
    /\ Archive \notin DOMAIN fs
    /\ [msg |-> "Deleted file", path |-> Archive] \in Range(log)

\* validation, download, archiving and upload all succeeded, and nothing
\* interrupted the run
AllSucceeded ==
    /\ BeginsWithMagnet
    /\ child.rc = <<0>>
    /\ zip_rc = <<0>>
    /\ Entered("Uploading")
    /\ UploadAccepted
    /\ response.downloadPage # None
    /\ exc = "none"

\* C6: in a run where validation, download, archiving and upload all succeed
\* the stages occur once each, in the order Validating, Downloading,
\* Archiving, Uploading, Reporting, CleaningUp, Done; the reported link is
\* the URL the Uploader returned; and at Done neither the archive nor the
\* download directory exists, each unless its deletion raised.
C6_SuccessfulRunInOrder ==
    /\ AllSucceeded =>
          \E n \in 0..7 :
             trace = SubSeq(<<"Validating", "Downloading", "Archiving",
                              "Uploading", "Reporting", "CleaningUp", "Done">>,
                            1, n)
    /\ (pc = "exit" /\ AllSucceeded) =>
          /\ trace = <<"Validating", "Downloading", "Archiving", "Uploading",
                       "Reporting", "CleaningUp", "Done">>
          /\ reported = response.downloadPage
          /\ reported = download_page
          /\ (\A r \in raised : r.path # Archive) => Archive \notin DOMAIN fs
          /\ (\A r \in raised : r.path # DownloadsDir) =>
                DownloadsDir \notin DOMAIN fs

\* C6, its case: a run went through every stage and ended at Done with the
\* link reported and nothing left on disk.
C6_Witness ==
    /\ pc = "exit"
    /\ AllSucceeded
    /\ trace[Len(trace)] = "Done"
    /\ reported = GoodUrl
    /\ Archive \notin DOMAIN fs
    /\ DownloadsDir \notin DOMAIN fs

(***************************************************************************)
(* Properties of get_torrent_info, checked under SpecName.                 *)
(***************************************************************************)
\* the places where the text "dn=" is followed by a character other than "&"
DnPlaces ==
    {i \in 1..Len(magnet_link) :
        /\ i + 3 <= Len(magnet_link)
        /\ magnet_link[i] = "d" /\ magnet_link[i+1] = "n"
        /\ magnet_link[i+2] = "=" /\ magnet_link[i+3] # "&"}

\* the value of the dn= parameter: what follows the first such "dn=", up to
\* the next "&" or the end of the link
DnValue ==
    LET m == CHOOSE i \in DnPlaces : \A j \in DnPlaces : i <= j
        e == CHOOSE k \in (m + 3)..Len(magnet_link) :
                /\ \A j \in (m + 3)..k : magnet_link[j] # "&"
                /\ k = Len(magnet_link) \/ magnet_link[k + 1] = "&"
    IN  SubSeq(magnet_link, m + 3, e)

\* r is v with every illegal character replaced by "_", every run of whitespace
\* replaced by one "_", cut to 100 characters: the characters of v that
\* are not inside a whitespace run after its first character are numbered from
\* 1, and the one numbered k <= 100 gives r[k]
IsSanitized(v, r) ==
    LET counts(i) == v[i] \notin Whitespace \/ i = 1 \/ v[i-1] \notin Whitespace
        number(i) == Cardinality({j \in 1..i : counts(j)})
        total == IF v = <<>> THEN 0 ELSE number(Len(v))
    IN  /\ Len(r) = IF total < 100 THEN total ELSE 100
        /\ \A i \in 1..Len(v) :
              (counts(i) /\ number(i) <= 100) =>
                 r[number(i)] =
                    IF v[i] \in Whitespace \/
                       v[i] \in {"<", ">", ":", "\"", "/", "\\", "|", "?", "*"}
                    THEN "_" ELSE v[i]

\* C7: for a magnet string with a dn= parameter (of a value that is not
\* empty) the label is the percent/plus-decoded value with every character of
\* < > : " / \ | ? * replaced by "_", every run of whitespace replaced by one
\* "_", cut to 100 characters; so it holds none of those characters, no
\* whitespace, and at most 100 characters; dn=My+Cool+File gives My_Cool_File.
C7_LabelIsSanitizedDisplayName ==
    /\ (pc = "named" /\ DnPlaces # {}) =>
          /\ IsSanitized(unquote_plus(DnValue), torrent_name)
          /\ Len(torrent_name) <= 100
          /\ \A i \in 1..Len(torrent_name) :
                /\ torrent_name[i] \notin
                      {"<", ">", ":", "\"", "/", "\\", "|", "?", "*"}
                /\ torrent_name[i] \notin Whitespace
    /\ (pc = "named" /\ DnPlaces # {} /\
        DnValue = <<"M","y","+","C","o","o","l","+","F","i","l","e">>) =>
          torrent_name = <<"M","y","_","C","o","o","l","_","F","i","l","e">>

\* C7, its case: a display name that decodes to more than 100 characters,
\* among them "/" and whitespace, has been turned into a label.
C7_Witness ==
    /\ pc = "named"
    /\ DnPlaces # {}
    /\ Len(unquote_plus(DnValue)) > 100
    /\ "/" \in Range(unquote_plus(DnValue))
    /\ \E c \in Range(unquote_plus(DnValue)) : c \in Whitespace
    /\ Len(torrent_name) = 100

\* the value of a string of decimal digits
RECURSIVE DecimalValue(_)
DecimalValue(d) ==
    IF d = <<>> THEN 0
    ELSE 10 * DecimalValue(SubSeq(d, 1, Len(d) - 1))
         + (CHOOSE n \in 0..9 : DigitChars[n + 1] = d[Len(d)])

\* name is "torrent_" followed by the decimal digits of t
IsFallback(name, t) ==
    /\ Len(name) > 8
    /\ SubSeq(name, 1, 8) = <<"t","o","r","r","e","n","t","_">>
    /\ \A i \in 9..Len(name) : name[i] \in Range(DigitChars)
    /\ (Len(name) > 9 => name[9] # "0")
    /\ DecimalValue(SubSeq(name, 9, Len(name))) = t

\* C8: the Name Extractor never fails: for a magnet string without dn=, or
\* whose dn= has an empty value, the label is torrent_<unix-seconds>, and for
\* every input the call returns a label that is not empty.
C8_FallbackAndNeverEmpty ==
    pc = "named" =>
       /\ torrent_name # None
       /\ Len(torrent_name) > 0
       /\ DnPlaces = {} => IsFallback(torrent_name, now)

\* C8, its case: a link that contains "dn=" with an empty value got the
\* fallback label.
C8_Witness ==
    /\ pc = "named"
    /\ \E i \in 1..(Len(magnet_link) - 3) :
          SubSeq(magnet_link, i, i + 3) = <<"d","n","=","&">>
    /\ DnPlaces = {}
    /\ IsFallback(torrent_name, now)

(***************************************************************************)
(* Properties of download_torrent, checked under SpecDownload.             *)
(***************************************************************************)
\* the read loop has been left
LoopLeft == pc \in {"loop_exit", "download_return"} /\ child.state # "none"

\* when the loop has been left the child has exited, its output is at
\* end-of-file and every line it wrote has been read, in order; the result
\* is True exactly for exit code 0
C9_LoopLeftAfterExit ==
    /\ LoopLeft =>
          /\ child.state = "exited"
          /\ child.closed
          /\ pipe = <<>>
          /\ lines_read = child.lines
    /\ pc = "download_return" =>
          (dl_result = <<TRUE>>) = (child.state = "exited" /\ child.rc = <<0>>)
    /\ pc = "download_return" => dl_result \in {<<TRUE>>, <<FALSE>>}

Named(p) ==
    \E i \in 1..Len(file_paths) :
       \/ p = file_paths[i]
       \/ Len(p) > Len(file_paths[i])
          /\ SubSeq(p, 1, Len(file_paths[i])) = file_paths[i]

\* the deletion of p, or of something below it, raised
FailedOn(p) == \E r \in raised : r.call \in {"remove", "rmtree"} /\ r.path = p

\* a is b with some elements left out
RECURSIVE IsSubsequence(_, _)
IsSubsequence(a, b) ==
    IF a = <<>> THEN TRUE
    ELSE IF b = <<>> THEN FALSE
    ELSE IF Head(a) = Head(b) THEN IsSubsequence(Tail(a), Tail(b)) \/
                                   IsSubsequence(a, Tail(b))
    ELSE IsSubsequence(a, Tail(b))

\* the lines printed by the loop, as the paths they name
LoopLog ==
    LET lines == SelectSeq(log, LAMBDA l : l.msg # "Removed empty downloads directory")
    IN  [i \in 1..Len(lines) |-> lines[i].path]

\* during the call: nothing is created, nothing outside the arguments and the
\* downloads root changes, every failure is on the log, and the log follows
\* the order of the arguments; at the return: every argument has been
\* processed, and every argument whose deletion did not raise is gone with
\* all that was in it
C10_State ==
    /\ DOMAIN fs \subseteq DOMAIN fs0
    /\ \A p \in DOMAIN fs : fs[p] = fs0[p]
    /\ \A p \in DOMAIN fs0 : (~Named(p) /\ p # DownloadsDir) => p \in DOMAIN fs
    /\ \A r \in raised :
          r.call \in {"remove", "rmtree"} =>
             [msg |-> "Could not delete", path |-> r.path] \in Range(log)
    /\ IsSubsequence(LoopLog, file_paths)
    /\ exc = "none"
    /\ pc = "cleanup_return" =>
          /\ idx = Len(file_paths) + 1
          /\ \A i \in 1..Len(file_paths) :
                ~FailedOn(file_paths[i]) =>
                   \A p \in DOMAIN fs :
                      /\ p # file_paths[i]
                      /\ ~(Len(p) > Len(file_paths[i]) /\
                           SubSeq(p, 1, Len(file_paths[i])) = file_paths[i])

\* the downloads root is an empty directory
EmptyRoot(f) ==
    /\ DownloadsDir \in DOMAIN f
    /\ f[DownloadsDir] = "dir"
    /\ ~ \E p \in DOMAIN f : Len(p) > 2 /\ SubSeq(p, 1, 2) = DownloadsDir

\* the step after the last argument: the downloads root is removed if and
\* only if it exists and is empty (and its removal does not raise); nothing
\* else changes; a step for an argument leaves alone what is not named
C10_Step ==
    /\ (pc = "cleanup" /\ pc' = "cleanup_return") =>
          /\ idx > Len(file_paths)
          /\ (DOMAIN fs) \ (DOMAIN fs') \subseteq {DownloadsDir}
          /\ DownloadsDir \in (DOMAIN fs) \ (DOMAIN fs') => EmptyRoot(fs)
          /\ (EmptyRoot(fs) /\ raised' = raised) => DownloadsDir \notin DOMAIN fs'
    /\ (pc = "cleanup" /\ pc' = "cleanup") =>
          /\ idx' = idx + 1
          /\ \A p \in (DOMAIN fs) \ (DOMAIN fs') :
                \/ p = file_paths[idx]
                \/ Len(p) > Len(file_paths[idx])
                   /\ SubSeq(p, 1, Len(file_paths[idx])) = file_paths[idx]
          /\ file_paths[idx] \notin DOMAIN fs => fs' = fs /\ log' = log

\* C10: cleanup_files processes every path of its argument list, in order
\* and independently: a path that exists is deleted (a directory with all
\* that is in it), a path that does not exist is skipped, a deletion that
\* fails is logged and the remaining paths are still processed, the call
\* does not raise, and afterwards the downloads root is removed if and only
\* if it exists and is empty; no path outside the arguments and the downloads
\* root is touched.
C10_CleanupProcessesEveryPath ==
    /\ []C10_State
    /\ [][C10_Step]_vars

\* C10, its case: the deletion of the first argument failed and was logged,
\* and the second argument was deleted all the same.
C10_Witness ==
    /\ pc = "cleanup_return"
    /\ Len(file_paths) >= 2
    /\ Len(log) >= 2
    /\ log[1] = [msg |-> "Could not delete", path |-> file_paths[1]]
    /\ log[2].msg \in {"Deleted file", "Deleted directory"}
    /\ log[2].path = file_paths[2]
    /\ file_paths[2] \notin DOMAIN fs

=============================================================================
